---- MODULE Spec2Model ----
(***************************************************************************)
(* Satellite Data Visualizer (src/satellite-data-visualizer.py).           *)
(*                                                                         *)
(* State machines over one set of variables:                               *)
(*   SpecConfig  SatDataViz._load_config with _verify_config_item.         *)
(*   SpecIngest  SatDataViz.process_tle_data with SatDataViz.readTLEfile   *)
(*               inlined: the per-source fetch / cache decision, archive   *)
(*               expansion, file read, and the triplet loop that builds    *)
(*               savedsats and bodies_dedup.                               *)
(*   SpecPlot    SatDataViz.plot_sats: the tick loop and the onpick /      *)
(*               onclick / handle_close callbacks.                         *)
(*   SpecPlotLive  SpecPlot with the threads kept running (liveness).      *)
(*   SpecPlotStep  plot_sats entered with secs_per_step 0 or not 0.        *)
(*                                                                         *)
(* Python indices are 0-based and kept so; a TLA+ sequence s is indexed    *)
(* s[i + 1] for the Python index i.                                        *)
(***************************************************************************)
EXTENDS Integers, Sequences, FiniteSets, TLC

\* Number of 'source ' sections of the configuration.
NumSources == 2

\* Number of records of the catalog that plot_sats is started with.
NumSats == 2

\* Largest number of points one pick event carries in event.ind.
MaxPick == 2

\* Last instant of the clock (time.time()), in units of 0.1 s.
MaxNow == 2

\* self.click_wait_s = 0.10, in units of 0.1 s.
click_wait_s == 1

\* Last instant self.curr_date is stepped to when secs_per_step is not 0.
MaxDate == 14

(***************************************************************************)
(* Text.  A line is the sequence of its whitespace-separated tokens, so    *)
(* str.split() is the line itself and str.strip() changes nothing.         *)
(***************************************************************************)
nameA == <<"A">>
nameB == <<"B">>
line1a == <<"1", "25544U", "98067A", "x1">>
line2a == <<"2", "25544", "y1">>
line1b == <<"1", "20580U", "90037B", "x2">>
line2b == <<"2", "20580", "y2">>
junk == <<"junk">>

\* Contents of TLE files: 0, 3, 7, 6, 5 and 1 lines.
Text0 == <<>>
Text3 == <<nameA, line1a, line2a>>
Text7 == <<nameB, line1a, line2a, nameA, line1b, line2b, nameA>>
Text6 == <<nameA, junk, line2a, nameB, line1b, line2b>>
Text5 == <<nameA, line1a, line2a, nameB, line1b>>
Text1 == <<junk>>

(***************************************************************************)
(* A file (on disk, or the body of an HTTP response): whether it exists,   *)
(* its size in bytes, whether zipfile.ZipFile rejects it, and the text     *)
(* lines it holds (of its first member when it is a good archive).         *)
(***************************************************************************)
MkFile(lines, size, badzip) ==
    [exists |-> TRUE, lines |-> lines, size |-> size, badzip |-> badzip]

NoFile == [exists |-> FALSE, lines |-> <<>>, size |-> 0, badzip |-> TRUE]

\* open(source_file, 'wb') before anything is written.
EmptyFile == MkFile(Text0, 0, TRUE)

Blobs ==
    { EmptyFile,
      MkFile(Text3, 30, FALSE),
      MkFile(Text7, 70, FALSE),
      MkFile(Text6, 60, FALSE),
      MkFile(Text5, 50, FALSE),
      MkFile(Text1, 30, TRUE) }

\* A local name that has not been assigned (data, response).
Unbound == NoFile

\* ETag headers as character sequences, and the etags a descriptor stores.
Quoted(s) == <<"\"">> \o s \o <<"\"">>
StoredEtags == { <<"v1">>, <<"v2">> }
HeaderEtags == { Quoted(e) : e \in StoredEtags }
StoredSizes == { 0, 30 }

ProbeErrors == { "HTTPError", "TimeoutError", "URLError" }

ColorOf(i) == IF i % 2 = 1 THEN "#FF0000" ELSE "#00FF00"

\* The section of the configuration for source number i.
Descriptors(i) ==
    [ num : {i}, color : {ColorOf(i)}, zip : BOOLEAN,
      etag : StoredEtags, size : StoredSizes ]

NoSource == [num |-> 0, color |-> "", zip |-> FALSE, etag |-> <<>>, size |-> 0]

\* The value readTLEfile returns: None, or the list of lines.
None == [isNone |-> TRUE, v |-> <<>>]
Lines(v) == [isNone |-> FALSE, v |-> v]
Truthy(t) == ~t.isNone /\ Len(t.v) > 0

VARIABLES
    \* ---- process_tle_data / readTLEfile
    pc,             \* position in process_tle_data / readTLEfile
    cur,            \* index of source_section in tleSources (1-based), 0 before
    source,         \* self.config[source_section]
    disk,           \* the file at source_file
    source0,        \* source as it was when readTLEfile was entered
    disk0,          \* disk as it was when readTLEfile was entered
    fallback_mode,
    new_etag,
    new_size,       \* -1 while unassigned
    curr_size,
    response,       \* body the server would send; Unbound when urlopen failed
    read_called,    \* response.read() has been called in this readTLEfile
    data,
    temp_content,
    i_name,
    savedsats,      \* self.savedsats (shared with plot_sats)
    bodies_dedup,
    ingested,       \* history: <<new_sat, body_datapart>> of every ingest
    seen,           \* history: <<source number, name line, line 1, line 2>> of
                    \* every triplet the loop has taken
    skipped,        \* history: numbers of the sources readTLEfile returned None for
    diag,           \* number of "does not conform to tle format" diagnostics
    exc,            \* the exception that left process_tle_data, or "none"
    \* ---- plot_sats
    tpc,            \* position of the tick loop (lines 444-526)
    sat_i,          \* Python index in self.savedsats of the loop of line 461
    plot_idx,       \* satdata['plot_idx'] per record; -1 is None
    theta_plot,
    radius_plot,
    colors,
    noted_sats,
    plotted_sats,   \* records are named by their Python index in savedsats
    picked_sats,
    errored_sats,
    outcomes,       \* history: what compute() gave for each record of this
                    \* tick, in catalog order
    diags,          \* history: the records a "Cannot compute position"
                    \* diagnostic was printed for, in order
    failed,         \* history: the records whose compute() has raised
                    \* RuntimeError
    curr_date,      \* self.curr_date
    home_date,      \* self.home.date
    dates,          \* history: self.home.date at each compute() of this tick
    update_lock,    \* "free", or who acquired it: "tick", "onpick", "onclick"
    close_event,
    now,            \* time.time()
    curr_time,      \* self.curr_time
    last_picked,    \* last_picked[0]: "None", "event" (the mouse event being
                    \* dispatched) or "other" (an earlier mouse event)
    hpc,            \* position of the GUI thread in onpick / onclick
    artist,         \* the frame the scatter on the axes was drawn from
    ev,             \* the mouse event being dispatched: event.ind (empty when
                    \* no point was hit) and event.button; as history, the
                    \* frame it was produced from, whether onpick returned
                    \* at line 410, and (once onclick has returned) whether
                    \* lines 438-440 ran
    \* ---- _load_config
    cpc,            \* position in _load_config: "load", "loaded", "crashed"
    item_i,         \* number of _verify_config_item calls that have returned
    has_main,       \* the configuration file has a 'main' section
    config,         \* self.config['main']: item name -> value, or Absent
    settings,       \* the attributes _load_config assigns: item name -> rval
    cfg_read,       \* history: what each call found under its item name
    cfg_exc         \* the exception that left _load_config, or "none"

fetchvars ==
    << source, disk, source0, disk0, fallback_mode, new_etag, new_size,
       curr_size, response, read_called, data >>

loopvars == << temp_content, i_name >>

histvars == << ingested, seen, skipped, diag >>

\* The configuration, which process_tle_data and plot_sats only read.
cfgvars == << cpc, item_i, has_main, config, settings, cfg_read, cfg_exc >>

buildvars ==
    << pc, cur, fetchvars, loopvars, bodies_dedup, histvars, exc, cfgvars >>

framevars ==
    << sat_i, plot_idx, theta_plot, radius_plot, colors, noted_sats,
       plotted_sats, outcomes, curr_date, home_date, dates >>

\* The "already warned" set of line 391 and the history of its use.
warnvars == << errored_sats, diags, failed >>

tickvars == << tpc, framevars, warnvars, artist >>

guivars == << curr_time, last_picked, hpc, ev >>

plotvars ==
    << tickvars, guivars, picked_sats, update_lock, close_event, now, cfgvars >>

vars == << buildvars, savedsats, plotvars >>

(***************************************************************************)
(* _load_config and _verify_config_item, lines 126-158.                    *)
(*                                                                         *)
(* A configuration value is what ConfigObj holds for a key: a string, or a *)
(* list of strings when the line has commas.  A value is a record of its   *)
(* type t and its text v (the string, or the members of the list).         *)
(***************************************************************************)
Str(x) == [t |-> "str", v |-> <<x>>]
List(xs) == [t |-> "list", v |-> xs]
Typed(t, x) == [t |-> t, v |-> <<x>>]

\* No value under the key.
Absent == [t |-> "absent", v |-> <<>>]

\* What a configuration file may hold under a key.
RawValues == { Str("7"), Str("abc"), List(<<"1700", "1000">>) }

IntLiterals == { "0", "7", "20" }
FloatLiterals == IntLiterals \cup { "0.75" }

\* list(s) of a string: its characters.
Chars(x) ==
    CASE x = "7" -> <<"7">>
      [] x = "abc" -> <<"a", "b", "c">>
      [] OTHER -> <<x>>

Returns(val) == [raises |-> "none", val |-> val]
Raises(e) == [raises |-> e, val |-> Absent]

\* item_type(value) of line 149 for int, float, str and list.
Convert(item_type, raw) ==
    CASE item_type = "int" ->
            IF raw.t = "list" THEN Raises("TypeError")
            ELSE IF raw.v[1] \in IntLiterals THEN Returns(Typed("int", raw.v[1]))
            ELSE Raises("ValueError")
      [] item_type = "float" ->
            IF raw.t = "list" THEN Raises("TypeError")
            ELSE IF raw.v[1] \in FloatLiterals
                 THEN Returns(Typed("float", raw.v[1]))
            ELSE Raises("ValueError")
      [] item_type = "str" ->
            IF raw.t = "list" THEN Returns([t |-> "str", v |-> <<"repr">> \o raw.v])
            ELSE Returns(raw)
      [] item_type = "list" ->
            IF raw.t = "list" THEN Returns(raw)
            ELSE Returns(List(Chars(raw.v[1])))

\* The calls of lines 130-145, in order, with the defaults of lines 107-114.
Items ==
    << [name |-> "secs_per_step", type |-> "int", default |-> Typed("int", "0")],
       [name |-> "default_location", type |-> "str",
        default |-> Str("San Francisco, CA, USA")],
       [name |-> "color_outline", type |-> "str", default |-> Str("#808080")],
       [name |-> "color_alpha", type |-> "float",
        default |-> Typed("float", "0.75")],
       [name |-> "user_agent", type |-> "str", default |-> Str("Mozilla/5.0")],
       [name |-> "window_size", type |-> "list",
        default |-> List(<<"1700", "1000">>)],
       [name |-> "update_pause_ms", type |-> "int",
        default |-> Typed("int", "20")],
       [name |-> "mpl_backend", type |-> "str", default |-> Str("TkAgg")] >>

ItemNames == { Items[k].name : k \in 1..Len(Items) }

Defaults ==
    [ n \in ItemNames |->
        (CHOOSE k \in 1..Len(Items) : Items[k].name = n) ]

DefaultOf(n) == Items[Defaults[n]].default

(***************************************************************************)
(* Pure helpers                                                            *)
(***************************************************************************)
dequote(s) ==
    IF Len(s) >= 1 /\ s[1] = s[Len(s)] /\ s[1] \in {"'", "\""}
    THEN SubSeq(s, 2, Len(s) - 1)
    ELSE s

\* ephem.readtle accepts the triplet (otherwise it raises ValueError).
readtle_ok(name, l1, l2) ==
    /\ Len(l1) = 4 /\ l1[1] = "1"
    /\ Len(l2) = 3 /\ l2[1] = "2"

\* The body ephem.readtle builds: its name and its orbital elements.
readtle(name, l1, l2) == [name |-> name, elems |-> <<l1[4], l2[3]>>]

\* body.writedb() as its comma-separated fields.
writedb(body) == <<body.name, "E">> \o body.elems

\* s.split(',', 1) of a string of at least two fields.
split1(fields) == <<Head(fields), Tail(fields)>>

\* The dict literal of lines 257-266.
NewSat(src, l1, body) ==
    [ name |-> body.name, number |-> l1[2], designator |-> l1[3],
      source_num |-> src.num, color |-> src.color, body |-> body,
      picked |-> FALSE ]

\* Lines 271-279: replace in place, or append and record the index.
Ingest_AlwaysAppend(sats, dedup, new_sat, key) ==
    [ sats |-> Append(sats, new_sat),
      dedup |-> [k \in DOMAIN dedup \cup {key} |-> Len(sats)] ]

Ingest_WrongIndex(sats, dedup, new_sat, key) ==
    IF key \in DOMAIN dedup
    THEN [ sats |-> [sats EXCEPT ![dedup[key] + 1] = new_sat], dedup |-> dedup ]
    ELSE [ sats |-> Append(sats, new_sat),
           dedup |-> [k \in DOMAIN dedup \cup {key} |->
                         IF k = key THEN Len(sats) + 1 ELSE dedup[k]] ]

Ingest(sats, dedup, new_sat, key) ==
    IF key \in DOMAIN dedup
    THEN [ sats |-> [sats EXCEPT ![dedup[key] + 1] = new_sat], dedup |-> dedup ]
    ELSE [ sats |-> Append(sats, new_sat),
           dedup |-> [k \in DOMAIN dedup \cup {key} |->
                         IF k = key THEN Len(sats) ELSE dedup[k]] ]

\* Line 240.
WhileCond(i, n) == 3 * i + 2 <= n

\* Lines 199-200.
UseExisting_NoFallback(fb, etag, netag, csize, nsize) ==
    etag = netag /\ csize = nsize

UseExisting_StoredSize(fb, etag, netag, csize, nsize) ==
    fb \/ (etag = netag /\ source.size = nsize)

UseExisting(fb, etag, netag, csize, nsize) ==
    fb \/ (etag = netag /\ csize = nsize)

Raise(e) == pc' = "crashed" /\ exc' = e

(***************************************************************************)
(* process_tle_data, lines 229-238: reset the catalog, then per source     *)
(* read its section and call readTLEfile.                                  *)
(***************************************************************************)
\* The locals of process_tle_data and readTLEfile before they are assigned.
BuildLocals ==
    /\ cur = 0
    /\ source = NoSource /\ source0 = NoSource
    /\ disk = NoFile /\ disk0 = NoFile
    /\ fallback_mode = FALSE
    /\ new_etag = <<>>
    /\ new_size = -1
    /\ curr_size = 0
    /\ response = Unbound
    /\ read_called = FALSE
    /\ data = Unbound
    /\ temp_content = None
    /\ i_name = 0
    /\ bodies_dedup = <<>>
    /\ ingested = <<>>
    /\ seen = <<>>
    /\ skipped = {}
    /\ diag = 0
    /\ exc = "none"

\* The attributes as __init__ sets them before _load_config (lines 107-114).
BuiltinSettings == [ n \in ItemNames |-> DefaultOf(n) ]

\* _load_config has returned for a file that gives no item a value: every
\* item has its default, stored in the 'main' section.
ConfigLoaded ==
    /\ cpc = "loaded"
    /\ item_i = Len(Items)
    /\ has_main = TRUE
    /\ config = BuiltinSettings
    /\ settings = BuiltinSettings
    /\ cfg_read = <<>>
    /\ cfg_exc = "none"

\* plot_sats has not been entered (lines 389-397 give these values).
PlotStart ==
    /\ tpc = "top"
    /\ sat_i = 0
    /\ plot_idx = [i \in 1..Len(savedsats) |-> -1]
    /\ theta_plot = <<>>
    /\ radius_plot = <<>>
    /\ colors = <<>>
    /\ noted_sats = <<>>
    /\ plotted_sats = <<>>
    /\ picked_sats = <<>>
    /\ errored_sats = {}
    /\ outcomes = <<>>
    /\ dates = <<>>
    /\ diags = <<>>
    /\ failed = {}
    /\ update_lock = "free"
    /\ close_event = FALSE
    /\ now = 0
    /\ curr_time = 0
    /\ curr_date = now
    /\ home_date = now
    /\ last_picked = "None"
    /\ hpc = "idle"
    /\ ev = [ind |-> <<>>, button |-> 0, frame |-> <<>>, limited |-> FALSE,
     cleared |-> FALSE]
    /\ artist = <<>>

\* self.savedsats = None (line 96) until process_tle_data assigns it.
InitIngest ==
    /\ savedsats = <<>>
    /\ pc = "ptd_start"
    /\ BuildLocals
    /\ PlotStart
    /\ ConfigLoaded

PtdStart ==
    /\ pc = "ptd_start"
    /\ savedsats' = <<>>
    /\ bodies_dedup' = <<>>
    /\ pc' = "for_source"
    /\ UNCHANGED << cur, fetchvars, loopvars, histvars, exc, plotvars >>

\* Lines 234-237 and 168-173.  The descriptor and the cached file of a source
\* are inputs, read when its turn comes.
ForSource ==
    /\ pc = "for_source"
    /\ IF cur < NumSources
       THEN /\ cur' = cur + 1
            /\ \E d \in Descriptors(cur + 1), f \in Blobs \cup {NoFile} :
                  /\ source' = d /\ source0' = d
                  /\ disk' = f /\ disk0' = f
            /\ fallback_mode' = FALSE
            /\ new_etag' = <<>>
            /\ new_size' = -1
            /\ curr_size' = 0
            /\ response' = Unbound
            /\ read_called' = FALSE
            /\ data' = Unbound
            /\ temp_content' = None
            /\ pc' = "r_probe"
            /\ UNCHANGED i_name
       ELSE /\ pc' = "done"
            /\ UNCHANGED << cur, fetchvars, loopvars >>
    /\ UNCHANGED << savedsats, bodies_dedup, histvars, exc, plotvars >>

(***************************************************************************)
(* readTLEfile, lines 174-188: the metadata probe.                         *)
(***************************************************************************)
ProbeOk ==
    /\ pc = "r_probe"
    /\ \E h \in HeaderEtags, body \in Blobs :
          /\ response' = body
          /\ new_etag' = dequote(h)
          /\ new_size' = body.size
    /\ pc' = "r_stat"
    /\ UNCHANGED << cur, source, disk, source0, disk0, fallback_mode, curr_size,
                    read_called, data, loopvars, savedsats, bodies_dedup,
                    histvars, exc, plotvars >>

ProbeFail ==
    /\ pc = "r_probe"
    /\ \E e \in ProbeErrors : fallback_mode' = TRUE
    /\ pc' = "r_stat"
    /\ UNCHANGED << cur, source, disk, source0, disk0, new_etag, new_size,
                    curr_size, response, read_called, data, loopvars,
                    savedsats, bodies_dedup, histvars, exc, plotvars >>

\* Lines 189-198.
StatFile_NoReturn ==
    /\ pc = "r_stat"
    /\ curr_size' = IF disk.exists THEN disk.size ELSE 0
    /\ pc' = "r_decide"
    /\ UNCHANGED << cur, source, disk, source0, disk0, fallback_mode, new_etag,
                    new_size, response, read_called, data, loopvars, savedsats,
                    bodies_dedup, histvars, exc, plotvars >>

StatFile ==
    /\ pc = "r_stat"
    /\ IF disk.exists
       THEN /\ curr_size' = disk.size
            /\ pc' = "r_decide"
            /\ UNCHANGED << temp_content, skipped >>
       ELSE /\ curr_size' = 0
            /\ IF fallback_mode
               THEN /\ temp_content' = None
                    /\ skipped' = skipped \cup {source.num}
                    /\ pc' = "ptd_check"
               ELSE /\ pc' = "r_decide"
                    /\ UNCHANGED << temp_content, skipped >>
    /\ UNCHANGED << cur, source, disk, source0, disk0, fallback_mode, new_etag,
                    new_size, response, read_called, data, i_name, savedsats,
                    bodies_dedup, ingested, seen, diag, exc, plotvars >>

\* Lines 199-203.
Decide ==
    /\ pc = "r_decide"
    /\ IF UseExisting(fallback_mode, source.etag, new_etag, curr_size, new_size)
       THEN pc' = "r_unzip"
       ELSE pc' = "r_download"
    /\ UNCHANGED << cur, fetchvars, loopvars, savedsats, bodies_dedup,
                    histvars, exc, plotvars >>

\* Lines 204-211: response.read() returns the body, and the else clause
\* records the new etag and size ...
DownloadOk_NoStore ==
    /\ pc = "r_download"
    /\ read_called' = TRUE
    /\ data' = response
    /\ pc' = "r_write"
    /\ UNCHANGED << cur, source, disk, source0, disk0, fallback_mode, new_etag,
                    new_size, curr_size, response, loopvars, savedsats,
                    bodies_dedup, histvars, exc, plotvars >>

DownloadOk ==
    /\ pc = "r_download"
    /\ read_called' = TRUE
    /\ data' = response
    /\ source' = [source EXCEPT !.etag = new_etag, !.size = new_size]
    /\ pc' = "r_write"
    /\ UNCHANGED << cur, disk, source0, disk0, fallback_mode, new_etag, new_size,
                    curr_size, response, loopvars, savedsats, bodies_dedup,
                    histvars, exc, plotvars >>

\* ... or raises HTTPError, which is caught and leaves data unassigned.
DownloadFail ==
    /\ pc = "r_download"
    /\ read_called' = TRUE
    /\ pc' = "r_write"
    /\ UNCHANGED << cur, source, disk, source0, disk0, fallback_mode, new_etag,
                    new_size, curr_size, response, data, loopvars, savedsats,
                    bodies_dedup, histvars, exc, plotvars >>

\* Lines 212-214: open(..., 'wb') truncates the file, then f.write(data).
WriteFile ==
    /\ pc = "r_write"
    /\ IF data = Unbound
       THEN /\ disk' = EmptyFile
            /\ Raise("UnboundLocalError")
       ELSE /\ disk' = data
            /\ pc' = "r_unzip"
            /\ UNCHANGED exc
    /\ UNCHANGED << cur, source, source0, disk0, fallback_mode, new_etag,
                    new_size, curr_size, response, read_called, data, loopvars,
                    savedsats, bodies_dedup, histvars, plotvars >>

\* Lines 215-227: expand the archive when the name ends in .zip, then read
\* the lines of the file.
ReadFile ==
    /\ pc = "r_unzip"
    /\ IF ~disk.exists
       THEN Raise("FileNotFoundError") /\ UNCHANGED temp_content
       ELSE IF source.zip /\ disk.badzip
       THEN Raise("BadZipFile") /\ UNCHANGED temp_content
       ELSE /\ temp_content' = Lines(disk.lines)
            /\ pc' = "ptd_check"
            /\ UNCHANGED exc
    /\ UNCHANGED << cur, fetchvars, i_name, savedsats, bodies_dedup, histvars,
                    plotvars >>

(***************************************************************************)
(* process_tle_data, lines 238-281: the triplet loop.                      *)
(***************************************************************************)
\* Lines 238-239.
CheckContent ==
    /\ pc = "ptd_check"
    /\ IF Truthy(temp_content)
       THEN i_name' = 0 /\ pc' = "ptd_while"
       ELSE pc' = "ptd_next" /\ UNCHANGED i_name
    /\ UNCHANGED << cur, fetchvars, temp_content, savedsats, bodies_dedup,
                    histvars, exc, plotvars >>

\* Line 240 is false: the loop ends.
WhileExit ==
    /\ pc = "ptd_while"
    /\ ~WhileCond(i_name, Len(temp_content.v))
    /\ pc' = "ptd_next"
    /\ UNCHANGED << cur, fetchvars, loopvars, savedsats, bodies_dedup,
                    histvars, exc, plotvars >>

\* Lines 241-243 index past the end of the list.
WhileIndexError ==
    /\ pc = "ptd_while"
    /\ WhileCond(i_name, Len(temp_content.v))
    /\ 3 * i_name + 2 >= Len(temp_content.v)
    /\ Raise("IndexError")
    /\ UNCHANGED << cur, fetchvars, loopvars, savedsats, bodies_dedup,
                    histvars, plotvars >>

\* The triplet of lines 241-243, when all three indices are in range.
HaveTriplet ==
    /\ pc = "ptd_while"
    /\ WhileCond(i_name, Len(temp_content.v))
    /\ 3 * i_name + 2 < Len(temp_content.v)

rawTLEname == temp_content.v[3 * i_name + 1]
rawTLEdat1 == temp_content.v[3 * i_name + 2]
rawTLEdat2 == temp_content.v[3 * i_name + 3]

\* Lines 245-252 and 280: readtle raises ValueError; the triplet is reported.
TripletBad_Break ==
    /\ HaveTriplet
    /\ ~readtle_ok(rawTLEname, rawTLEdat1, rawTLEdat2)
    /\ diag' = diag + 1
    /\ seen' = Append(seen, <<source.num, rawTLEname, rawTLEdat1, rawTLEdat2>>)
    /\ pc' = "ptd_next"
    /\ UNCHANGED << cur, fetchvars, loopvars, savedsats, bodies_dedup,
                    ingested, skipped, exc, plotvars >>

TripletBad ==
    /\ HaveTriplet
    /\ ~readtle_ok(rawTLEname, rawTLEdat1, rawTLEdat2)
    /\ diag' = diag + 1
    /\ seen' = Append(seen, <<source.num, rawTLEname, rawTLEdat1, rawTLEdat2>>)
    /\ i_name' = i_name + 1
    /\ UNCHANGED << pc, cur, fetchvars, temp_content, savedsats, bodies_dedup,
                    ingested, skipped, exc, plotvars >>

\* Lines 253-280: readtle succeeds; the record is ingested.
TripletGood ==
    /\ HaveTriplet
    /\ readtle_ok(rawTLEname, rawTLEdat1, rawTLEdat2)
    /\ LET body == readtle(rawTLEname, rawTLEdat1, rawTLEdat2)
           body_datapart == split1(writedb(body))[2]
           new_sat == NewSat(source, rawTLEdat1, body)
           r == Ingest(savedsats, bodies_dedup, new_sat, body_datapart)
       IN /\ savedsats' = r.sats
          /\ bodies_dedup' = r.dedup
          /\ ingested' = Append(ingested, <<new_sat, body_datapart>>)
    /\ seen' = Append(seen, <<source.num, rawTLEname, rawTLEdat1, rawTLEdat2>>)
    /\ i_name' = i_name + 1
    /\ UNCHANGED << pc, cur, fetchvars, temp_content, skipped, diag, exc,
                    plotvars >>

\* Line 281, and back to line 234.
NextSource ==
    /\ pc = "ptd_next"
    /\ pc' = "for_source"
    /\ UNCHANGED << cur, fetchvars, loopvars, savedsats, bodies_dedup,
                    histvars, exc, plotvars >>

NextIngest ==
    \/ PtdStart
    \/ ForSource
    \/ ProbeOk
    \/ ProbeFail
    \/ StatFile
    \/ Decide
    \/ DownloadOk
    \/ DownloadFail
    \/ WriteFile
    \/ ReadFile
    \/ CheckContent
    \/ WhileExit
    \/ WhileIndexError
    \/ TripletBad
    \/ TripletGood
    \/ NextSource

SpecIngest == InitIngest /\ [][NextIngest]_vars

(***************************************************************************)
(* plot_sats, lines 374-526.                                               *)
(*                                                                         *)
(* The tick loop runs in the main thread.  The callbacks registered with   *)
(* mpl_connect are run by the GUI event dispatcher, one mouse event at a   *)
(* time: for a button press over plotted points onpick is called first     *)
(* and onclick after it, with the same mouse event.  update_lock is a      *)
(* threading.Lock taken with a blocking acquire on both sides, so the      *)
(* dispatcher is a second process whose steps interleave with the tick     *)
(* loop's.                                                                 *)
(***************************************************************************)
\* Sample TLE triplets for the catalog plot_sats starts with.
line1c == <<"1", "25338U", "98030A", "x3">>
line2c == <<"2", "25338", "y3">>
SampleTriplets ==
    << <<nameA, line1a, line2a>>, <<nameB, line1b, line2b>>,
       <<nameA, line1c, line2c>> >>

\* The catalog process_tle_data leaves for one source holding NumSats
\* triplets; the index of a record is added to its elements, so that the
\* identity keys differ whatever NumSats is.
PlotCatalog ==
    [ i \in 1..NumSats |->
        LET t == SampleTriplets[((i - 1) % Len(SampleTriplets)) + 1] IN
           NewSat([num |-> 1, color |-> ColorOf(1)], t[2],
                  [ readtle(t[1], t[2], t[3]) EXCEPT !.elems = Append(@, i) ]) ]

\* The same catalog with every record under one name: the records of one
\* satellite that two sources list with different elements.
PlotCatalog_OneName ==
    [ i \in 1..NumSats |->
        [ PlotCatalog[i] EXCEPT !.name = nameA, !.body.name = nameA ] ]

\* plot_sats is entered after process_tle_data has returned (lines 579-581).
InitPlot ==
    /\ savedsats \in {PlotCatalog, PlotCatalog_OneName}
    /\ pc = "done"
    /\ BuildLocals
    /\ PlotStart
    /\ ConfigLoaded

\* Outcomes of satdata['body'].compute(self.home), lines 463-474.
ComputeOutcomes == {"above", "below", "ValueError", "RuntimeError"}

Buttons == {1, 3}

NoEvent == [ind |-> <<>>, button |-> 0, frame |-> <<>>, limited |-> FALSE,
     cleared |-> FALSE]

\* event.ind of a pick on the scatter of n points: a non-empty increasing
\* list of at most MaxPick plot indices.
Picks(n) ==
    { ind \in UNION { [1..m -> 0..(n - 1)] : m \in 1..MaxPick } :
        \A a, b \in 1..Len(ind) : a < b => ind[a] < ind[b] }

\* list.remove(x): without the first occurrence of x.
Remove_Nothing(list, x) == list

RECURSIVE Remove(_, _)
Remove(list, x) ==
    IF list = <<>> THEN <<>>
    ELSE IF Head(list) = x THEN Tail(list)
    ELSE <<Head(list)>> \o Remove(Tail(list), x)

InList(list, x) == \E j \in 1..Len(list) : list[j] = x

\* Line 414: the record a plot index names.
Resolve_Catalog(plotted, idx) == idx

Resolve(plotted, idx) == plotted[idx + 1]

\* Lines 413-422, the loop over event.ind.  Returns the records, the
\* tracked list, and whether plotted_sats[plot_idx] raised IndexError.
RECURSIVE PickLoop(_, _, _, _)
PickLoop(ind, sats, picked, plotted) ==
    IF ind = <<>>
    THEN [sats |-> sats, picked |-> picked, raised |-> FALSE]
    ELSE IF Head(ind) >= Len(plotted)
    THEN [sats |-> sats, picked |-> picked, raised |-> TRUE]
    ELSE LET satdata == Resolve(plotted, Head(ind)) IN
         IF sats[satdata + 1].picked
         THEN PickLoop(Tail(ind),
                       [sats EXCEPT ![satdata + 1].picked = FALSE],
                       IF InList(picked, satdata) THEN Remove(picked, satdata)
                                                  ELSE picked,
                       plotted)
         ELSE PickLoop(Tail(ind),
                       [sats EXCEPT ![satdata + 1].picked = TRUE],
                       Append(picked, satdata),
                       plotted)

\* Lines 438-440.
ClearPicks_Nothing(sats, picked) == sats

ClearPicks(sats, picked) ==
    [ i \in 1..Len(sats) |->
        IF InList(picked, i - 1) THEN [sats[i] EXCEPT !.picked = FALSE]
        ELSE sats[i] ]

\* Lines 409 and 430.
RateLimited_Never == FALSE

RateLimited == now - curr_time < click_wait_s

\* int() of the strings int() accepts.
IntOf(x) ==
    CASE x = "0" -> 0
      [] x = "7" -> 7
      [] x = "20" -> 20

\* self.secs_per_step, as _load_config left it.
SecsPerStep == IntOf(settings["secs_per_step"].v[1])

\* Lines 450-453: the instant of the tick.
NextDate_WallClock(date, secs, clock) == clock

NextDate(date, secs, clock) == IF secs # 0 THEN date + secs ELSE clock

\* ---- the tick loop ----------------------------------------------------

\* Lines 444-448.
TickTop ==
    /\ tpc = "top"
    /\ tpc' = IF close_event THEN "exited" ELSE "acquire"
    /\ UNCHANGED << buildvars, savedsats, framevars, warnvars, artist,
                    guivars, picked_sats, update_lock, close_event, now >>

\* Line 449.  (A stepped date stops at MaxDate.)
TickAcquire ==
    /\ tpc = "acquire"
    /\ update_lock = "free"
    /\ SecsPerStep = 0 \/ curr_date + SecsPerStep <= MaxDate
    /\ update_lock' = "tick"
    /\ tpc' = "begin"
    /\ UNCHANGED << buildvars, savedsats, framevars, warnvars, artist,
                    guivars, picked_sats, close_event, now >>

\* Lines 450-460.
TickBegin_ClearsTracked ==
    /\ tpc = "begin"
    /\ theta_plot' = <<>>
    /\ radius_plot' = <<>>
    /\ colors' = <<>>
    /\ noted_sats' = <<>>
    /\ plotted_sats' = <<>>
    /\ picked_sats' = <<>>
    /\ outcomes' = <<>>
    /\ curr_date' = NextDate(curr_date, SecsPerStep, now)
    /\ home_date' = curr_date'
    /\ dates' = <<>>
    /\ sat_i' = 0
    /\ tpc' = "sat"
    /\ UNCHANGED << buildvars, savedsats, plot_idx, warnvars, artist,
                    guivars, update_lock, close_event, now >>

\* Lines 450-460.
TickBegin ==
    /\ tpc = "begin"
    /\ curr_date' = NextDate(curr_date, SecsPerStep, now)
    /\ home_date' = curr_date'
    /\ dates' = <<>>
    /\ theta_plot' = <<>>
    /\ radius_plot' = <<>>
    /\ colors' = <<>>
    /\ noted_sats' = <<>>
    /\ plotted_sats' = <<>>
    /\ outcomes' = <<>>
    /\ sat_i' = 0
    /\ tpc' = "sat"
    /\ UNCHANGED << buildvars, savedsats, plot_idx, warnvars, artist,
                    guivars, picked_sats, update_lock, close_event, now >>

\* Lines 473-474: compute() returned and the altitude is above the horizon.
Visible_AnyAltitude(outcome) == outcome \in {"above", "below"}

Visible(outcome) == outcome = "above"

\* Line 470: the diagnostic of a RuntimeError is printed.
Warns(satdata, errored) == satdata.name \notin errored

\* Lines 478-481.
ColorFor_Source(satdata) == satdata.color

ColorFor(satdata) == IF satdata.picked THEN "#000000" ELSE satdata.color

\* Lines 461-485, one record.
TickSat ==
    /\ tpc = "sat"
    /\ sat_i < Len(savedsats)
    /\ LET satdata == savedsats[sat_i + 1] IN
       \E outcome \in ComputeOutcomes :
          /\ outcomes' = Append(outcomes, outcome)
          /\ dates' = Append(dates, home_date)
          /\ IF outcome = "RuntimeError"
             THEN /\ failed' = failed \cup {sat_i}
                  /\ IF Warns(satdata, errored_sats)
                     THEN /\ errored_sats' = errored_sats \cup {satdata.name}
                          /\ diags' = Append(diags, sat_i)
                     ELSE UNCHANGED << errored_sats, diags >>
             ELSE UNCHANGED warnvars
          /\ IF Visible(outcome)
             THEN /\ plot_idx' = [plot_idx EXCEPT ![sat_i + 1] = Len(plotted_sats)]
                  /\ radius_plot' = Append(radius_plot, sat_i)
                  /\ theta_plot' = Append(theta_plot, sat_i)
                  /\ colors' = Append(colors, ColorFor(satdata))
                  /\ noted_sats' = IF satdata.picked
                                   THEN Append(noted_sats, sat_i) ELSE noted_sats
                  /\ plotted_sats' = Append(plotted_sats, sat_i)
             ELSE /\ plot_idx' = [plot_idx EXCEPT ![sat_i + 1] = -1]
                  /\ UNCHANGED << theta_plot, radius_plot, colors, noted_sats,
                                  plotted_sats >>
    /\ sat_i' = sat_i + 1
    /\ UNCHANGED << buildvars, savedsats, tpc, artist, guivars, picked_sats,
                    update_lock, close_event, now, curr_date, home_date >>

\* Lines 487-516: the axes are cleared, the frame is drawn as a scatter, and
\* notate_sat_data writes the tracked list.
TickDraw ==
    /\ tpc = "sat"
    /\ sat_i = Len(savedsats)
    /\ artist' = plotted_sats
    /\ tpc' = "release"
    /\ UNCHANGED << buildvars, savedsats, framevars, warnvars, guivars,
                    picked_sats, update_lock, close_event, now >>

\* Line 517.
TickRelease ==
    /\ tpc = "release"
    /\ update_lock' = "free"
    /\ tpc' = "pause"
    /\ UNCHANGED << buildvars, savedsats, framevars, warnvars, artist,
                    guivars, picked_sats, close_event, now >>

\* Lines 518-526: plt.pause returns, or raises TclError once the window is
\* closed and the loop breaks.
TickPause ==
    /\ tpc = "pause"
    /\ \/ tpc' = "top"
       \/ close_event /\ tpc' = "exited"
    /\ UNCHANGED << buildvars, savedsats, framevars, warnvars, artist,
                    guivars, picked_sats, update_lock, close_event, now >>

\* ---- the callbacks ----------------------------------------------------

\* Lines 399-402.
HandleClose ==
    /\ hpc = "idle"
    /\ tpc # "exited"
    /\ ~close_event
    /\ close_event' = TRUE
    /\ UNCHANGED << buildvars, savedsats, tickvars, guivars, picked_sats,
                    update_lock, now >>

\* A button press away from every point: only onclick is called.
MouseClick ==
    /\ hpc = "idle"
    /\ tpc # "exited"
    /\ ~close_event
    /\ \E b \in Buttons :
          ev' = [ind |-> <<>>, button |-> b, frame |-> artist, limited |-> FALSE,
                 cleared |-> FALSE]
    /\ last_picked' = IF last_picked = "event" THEN "other" ELSE last_picked
    /\ hpc' = "click_entry"
    /\ UNCHANGED << buildvars, savedsats, tickvars, curr_time, picked_sats,
                    update_lock, close_event, now >>

\* A button press over points of the scatter, and lines 408-411 of onpick.
MousePick ==
    /\ hpc = "idle"
    /\ tpc # "exited"
    /\ ~close_event
    /\ \E b \in Buttons, ind \in Picks(Len(artist)) :
          ev' = [ind |-> ind, button |-> b, frame |-> artist,
                 limited |-> RateLimited, cleared |-> FALSE]
    /\ last_picked' = "event"
    /\ IF RateLimited
       THEN hpc' = "click_entry" /\ UNCHANGED curr_time
       ELSE hpc' = "pick_wait" /\ curr_time' = now
    /\ UNCHANGED << buildvars, savedsats, tickvars, picked_sats, update_lock,
                    close_event, now >>

\* Line 412.
OnpickAcquire_NoWait ==
    /\ hpc = "pick_wait"
    /\ update_lock' = "onpick"
    /\ hpc' = "pick_locked"
    /\ UNCHANGED << buildvars, savedsats, tickvars, curr_time, last_picked, ev,
                    picked_sats, close_event, now >>

OnpickAcquire ==
    /\ hpc = "pick_wait"
    /\ update_lock = "free"
    /\ update_lock' = "onpick"
    /\ hpc' = "pick_locked"
    /\ UNCHANGED << buildvars, savedsats, tickvars, curr_time, last_picked, ev,
                    picked_sats, close_event, now >>

\* Lines 413-423.  An IndexError leaves onpick before line 423; the
\* dispatcher reports it and either goes on to onclick or drops the event.
OnpickBody ==
    /\ hpc = "pick_locked"
    /\ LET r == PickLoop(ev.ind, savedsats, picked_sats, plotted_sats) IN
          /\ savedsats' = r.sats
          /\ picked_sats' = r.picked
          /\ IF r.raised
             THEN /\ UNCHANGED update_lock
                  /\ \/ hpc' = "click_entry" /\ UNCHANGED << ev, last_picked >>
                     \/ hpc' = "idle" /\ ev' = NoEvent /\ UNCHANGED last_picked
             ELSE /\ update_lock' = "free"
                  /\ hpc' = "click_entry"
                  /\ UNCHANGED << ev, last_picked >>
    /\ UNCHANGED << buildvars, tickvars, curr_time, close_event, now >>

\* Lines 430-432.
OnclickEntry ==
    /\ hpc = "click_entry"
    /\ IF RateLimited
       THEN hpc' = "idle" /\ ev' = NoEvent /\ UNCHANGED curr_time
       ELSE hpc' = "click_wait" /\ curr_time' = now /\ UNCHANGED ev
    /\ UNCHANGED << buildvars, savedsats, tickvars, last_picked, picked_sats,
                    update_lock, close_event, now >>

\* Line 433.
OnclickAcquire ==
    /\ hpc = "click_wait"
    /\ update_lock = "free"
    /\ update_lock' = "onclick"
    /\ hpc' = "click_locked"
    /\ UNCHANGED << buildvars, savedsats, tickvars, curr_time, last_picked, ev,
                    picked_sats, close_event, now >>

\* Lines 434-441.
OnclickBody ==
    /\ hpc = "click_locked"
    /\ IF last_picked # "event" /\ ev.button = 3
       THEN /\ savedsats' = ClearPicks(savedsats, picked_sats)
            /\ picked_sats' = <<>>
            /\ ev' = [NoEvent EXCEPT !.cleared = TRUE]
       ELSE /\ ev' = NoEvent
            /\ UNCHANGED << savedsats, picked_sats >>
    /\ update_lock' = "free"
    /\ hpc' = "idle"
    /\ UNCHANGED << buildvars, tickvars, curr_time, last_picked, close_event,
                    now >>

\* time.time() moves on.
Advance ==
    /\ now < MaxNow
    /\ now' = now + 1
    /\ UNCHANGED << buildvars, savedsats, tickvars, guivars, picked_sats,
                    update_lock, close_event >>

NextPlot ==
    \/ TickTop
    \/ TickAcquire
    \/ TickBegin
    \/ TickSat
    \/ TickDraw
    \/ TickRelease
    \/ TickPause
    \/ HandleClose
    \/ MouseClick
    \/ MousePick
    \/ OnpickAcquire
    \/ OnpickBody
    \/ OnclickEntry
    \/ OnclickAcquire
    \/ OnclickBody
    \/ Advance

SpecPlot == InitPlot /\ [][NextPlot]_vars

\* The main thread and the GUI dispatcher both keep running: a step that
\* stays possible is taken.  A blocking acquire (lines 412, 433, 449)
\* returns once the lock stays free.  No fairness is put on the arrival of
\* mouse or close events, nor on the clock.
FairPlot ==
    /\ WF_vars(TickTop)
    /\ WF_vars(TickAcquire)
    /\ WF_vars(TickBegin)
    /\ WF_vars(TickSat)
    /\ WF_vars(TickDraw)
    /\ WF_vars(TickRelease)
    /\ WF_vars(TickPause)
    /\ WF_vars(OnpickAcquire)
    /\ WF_vars(OnpickBody)
    /\ WF_vars(OnclickEntry)
    /\ WF_vars(OnclickAcquire)
    /\ WF_vars(OnclickBody)

SpecPlotLive == SpecPlot /\ FairPlot

\* The settings _load_config leaves when the file gives secs_per_step the
\* value x and nothing else.
StepSettings(x) == [ BuiltinSettings EXCEPT !["secs_per_step"] = Typed("int", x) ]

\* plot_sats entered in real-time mode (secs_per_step = 0) or in simulation
\* mode (secs_per_step = 7).
InitPlotStep ==
    /\ savedsats = PlotCatalog
    /\ pc = "done"
    /\ BuildLocals
    /\ PlotStart
    /\ cpc = "loaded"
    /\ item_i = Len(Items)
    /\ has_main = TRUE
    /\ \E x \in {"0", "7"} :
          /\ settings = StepSettings(x)
          /\ config = [ BuiltinSettings EXCEPT !["secs_per_step"] = Str(x) ]
    /\ cfg_read = <<>>
    /\ cfg_exc = "none"

SpecPlotStep == InitPlotStep /\ [][NextPlot]_vars

(***************************************************************************)
(* SatDataViz.__init__ calling _load_config, lines 107-119.                *)
(***************************************************************************)
\* Everything process_tle_data and plot_sats own.
othervars ==
    << pc, cur, fetchvars, loopvars, bodies_dedup, histvars, exc, savedsats,
       tickvars, guivars, picked_sats, update_lock, close_event, now >>

\* ConfigObj(config_file) has read the file (line 129): it has a 'main'
\* section or not; what a key holds is an input read when its turn comes.
InitConfig ==
    /\ savedsats = <<>>
    /\ pc = "ptd_start"
    /\ BuildLocals
    /\ PlotStart
    /\ cpc = "load"
    /\ item_i = 0
    /\ has_main \in BOOLEAN
    /\ config = [ n \in ItemNames |-> Absent ]
    /\ settings = BuiltinSettings
    /\ cfg_read = <<>>
    /\ cfg_exc = "none"

\* The except clauses of lines 150 and 154.
Handled(e) == e \in {"KeyError", "ValueError"}

\* One call of _verify_config_item (lines 147-158) and the assignment of
\* its result (lines 130-145).
VerifyConfigItem ==
    /\ cpc = "load"
    /\ item_i < Len(Items)
    /\ LET item == Items[item_i + 1] IN
       \E found \in (IF has_main THEN RawValues \cup {Absent} ELSE {Absent}) :
          LET r == IF found = Absent THEN Raises("KeyError")
                   ELSE Convert(item.type, found)
          IN /\ cfg_read' = Append(cfg_read, found)
             /\ IF r.raises = "none"
                THEN /\ config' = [config EXCEPT ![item.name] = found]
                     /\ settings' = [settings EXCEPT ![item.name] = r.val]
                     /\ item_i' = item_i + 1
                     /\ UNCHANGED << cpc, cfg_exc >>
                ELSE IF Handled(r.raises) /\ has_main
                THEN /\ config' = [config EXCEPT ![item.name] = item.default]
                     /\ settings' = [settings EXCEPT ![item.name] = item.default]
                     /\ item_i' = item_i + 1
                     /\ UNCHANGED << cpc, cfg_exc >>
                ELSE /\ cpc' = "crashed"
                     /\ cfg_exc' = r.raises
                     /\ UNCHANGED << config, settings, item_i >>
    /\ UNCHANGED << has_main, othervars >>

\* _load_config returns after the call of lines 144-145.
LoadConfigReturn ==
    /\ cpc = "load"
    /\ item_i = Len(Items)
    /\ cpc' = "loaded"
    /\ UNCHANGED << item_i, has_main, config, settings, cfg_read, cfg_exc,
                    othervars >>

NextConfig ==
    \/ VerifyConfigItem
    \/ LoadConfigReturn

SpecConfig == InitConfig /\ [][NextConfig]_vars

(***************************************************************************)
(* Properties of the catalog build (checked under SpecIngest)              *)
(***************************************************************************)
\* The identity key of a catalog record, as line 256 derives it.
KeyOf(sat) == split1(writedb(sat.body))[2]

IngestedKeys == { ingested[j][2] : j \in 1..Len(ingested) }

FirstAt(key) ==
    CHOOSE j \in 1..Len(ingested) :
        /\ ingested[j][2] = key
        /\ \A i \in 1..(j - 1) : ingested[i][2] # key

LastAt(key) ==
    CHOOSE j \in 1..Len(ingested) :
        /\ ingested[j][2] = key
        /\ \A i \in (j + 1)..Len(ingested) : ingested[i][2] # key

\* Python index at which a key was first ingested: the number of distinct
\* keys first ingested before it.
FirstIndex(key) ==
    Cardinality({ k \in IngestedKeys : FirstAt(k) < FirstAt(key) })

\* C4: after any sequence of ingests the catalog holds exactly one entry per
\* distinct identity key; the entry of a key is the last record ingested with
\* that key, at the index where the key was first ingested, and is unpicked.
C4_OneEntryPerKey ==
    /\ Len(savedsats) = Cardinality(IngestedKeys)
    /\ \A key \in IngestedKeys :
          LET sat == savedsats[FirstIndex(key) + 1] IN
             /\ sat = ingested[LastAt(key)][1]
             /\ KeyOf(sat) = key
             /\ sat.picked = FALSE

\* C4 witness: a key ingested by source 1 at index 0, followed by another
\* key, was ingested again under another name by source 2.
C4_Witness ==
    /\ pc = "done"
    /\ Len(savedsats) = 2
    /\ Len(ingested) = 3
    /\ ingested[1][2] = ingested[3][2]
    /\ ingested[1][1].name # ingested[3][1].name
    /\ savedsats[1].source_num = 2
    /\ savedsats[2].source_num = 1

\* C5 (as claimed): for every number N of lines the triplet loop raises no
\* error and ends having taken exactly floor(N / 3) triplets.
C5_Claim_FloorTriplets ==
    /\ exc # "IndexError"
    /\ (pc = "ptd_next" /\ Truthy(temp_content))
          => i_name = Len(temp_content.v) \div 3

\* The triplets taken so far that ephem.readtle accepts, in order.
ValidSeen == SelectSeq(seen, LAMBDA t : readtle_ok(t[2], t[3], t[4]))

ValidKeys ==
    { split1(writedb(readtle(ValidSeen[j][2], ValidSeen[j][3],
                             ValidSeen[j][4])))[2] : j \in 1..Len(ValidSeen) }

\* The catalog holds exactly the records of the valid triplets taken so far.
CatalogIsValidSeen ==
    /\ Len(ingested) = Len(ValidSeen)
    /\ diag = Len(seen) - Len(ValidSeen)
    /\ { KeyOf(savedsats[i]) : i \in 1..Len(savedsats) } = ValidKeys
    /\ Len(savedsats) = Cardinality(ValidKeys)
    /\ \A i \in 1..Len(savedsats) :
          \E j \in 1..Len(ValidSeen) :
             LET t == ValidSeen[j] IN
                /\ savedsats[i].name = t[2]
                /\ savedsats[i].source_num = t[1]
                /\ savedsats[i].body = readtle(t[2], t[3], t[4])

\* The step that takes a triplet ephem.readtle rejects.
BadTripletStep ==
    /\ diag' = diag + 1
    /\ savedsats' = savedsats
    /\ bodies_dedup' = bodies_dedup
    /\ ingested' = ingested
    /\ exc' = "none"
    /\ pc' = "ptd_while"
    /\ i_name' = i_name + 1
    /\ temp_content' = temp_content
    /\ cur' = cur

\* C6: a triplet that fails validation is skipped with a diagnostic and
\* nothing else: no catalog entry, no dedup key, the loop goes on with the
\* next triplet, and the catalog holds exactly the records of the valid
\* triplets.
C6_BadTripletOnlySkipped ==
    /\ [][ (HaveTriplet /\ ~readtle_ok(rawTLEname, rawTLEdat1, rawTLEdat2))
              => BadTripletStep ]_vars
    /\ [] CatalogIsValidSeen

\* C6 witness: the build ended after a rejected triplet was followed by an
\* accepted one in the same source and by an accepted one of a later source.
C6_Witness ==
    /\ pc = "done"
    /\ diag = 1
    /\ Len(seen) = 3
    /\ ~readtle_ok(seen[1][2], seen[1][3], seen[1][4])
    /\ seen[1][1] = 1 /\ seen[2][1] = 1 /\ seen[3][1] = 2
    /\ Len(savedsats) = 2

\* readTLEfile raised (the exceptions of lines 212-222).
ReadTLEfileRaised ==
    pc = "crashed" /\ exc \in {"UnboundLocalError", "BadZipFile", "FileNotFoundError"}

\* readTLEfile returned (and the caller has not gone on to the next source).
ReadTLEfileReturned == pc \in {"ptd_check", "ptd_while", "ptd_next"}

ProbeFailedWithCache == fallback_mode /\ disk0.exists

catalogvars == << savedsats, bodies_dedup, ingested, seen >>

\* C8: when the probe fails and no cached file exists, readTLEfile returns
\* None, the source contributes no record, the records already ingested
\* stay, nothing is raised, and the loop goes on to the next source.
C8_SourceSkipped ==
    /\ [][ (pc = "r_stat" /\ fallback_mode /\ ~disk.exists)
              => (/\ pc' = "ptd_check" /\ temp_content' = None
                  /\ exc' = "none" /\ UNCHANGED catalogvars) ]_vars
    /\ [][ (pc = "ptd_check" /\ temp_content = None)
              => (pc' = "ptd_next" /\ exc' = "none" /\ UNCHANGED catalogvars) ]_vars
    /\ [][ pc = "ptd_next"
              => (pc' = "for_source" /\ cur' = cur /\ UNCHANGED catalogvars) ]_vars
    /\ [][ (pc = "for_source" /\ cur < NumSources)
              => (pc' = "r_probe" /\ cur' = cur + 1 /\ UNCHANGED catalogvars) ]_vars
    /\ [] (\A j \in 1..Len(seen) : seen[j][1] \notin skipped)

\* C8 witness: source 1 was skipped, and source 2 was then fetched and
\* ingested.
C8_Witness ==
    /\ 1 \in skipped
    /\ pc = "done"
    /\ Len(savedsats) > 0
    /\ savedsats[1].source_num = 2

FileSize(f) == IF f.exists THEN f.size ELSE 0

\* The probe succeeded and lines 199-203 have chosen.
ProbeOkDecided == ~fallback_mode /\ pc \in {"r_download", "r_write", "r_unzip"}

WillDownload == pc = "r_download" \/ read_called

\* C9 (as claimed): after a successful probe the body is downloaded exactly
\* when the remote etag or size differs from the descriptor's stored etag
\* or stored size, and the content then read exists on disk.
C9_Claim_StoredEtagAndSize ==
    ProbeOkDecided =>
        /\ WillDownload <=> (source0.etag # new_etag \/ source0.size # new_size)
        /\ pc = "r_unzip" => disk.exists

\* C9 (amended): the body is downloaded exactly when the remote etag differs
\* from the stored etag or the remote size differs from the size of the
\* cached file on disk (0 without a cached file); otherwise nothing is
\* downloaded and the cached file is left as it is; the file then read
\* exists unless there was no cached file and the remote size is 0.
C9_StoredEtagAndFileSize ==
    ProbeOkDecided =>
        /\ WillDownload <=> (source0.etag # new_etag \/ FileSize(disk0) # new_size)
        /\ ~WillDownload => (disk = disk0 /\ source = source0)
        /\ pc = "r_unzip" => (disk.exists \/ (~disk0.exists /\ new_size = 0))

\* C9 witness: the cached file is used because its size and the etag match,
\* although the stored size differs from the remote size.
C9_Witness ==
    /\ ProbeOkDecided
    /\ pc = "r_unzip"
    /\ ~read_called
    /\ disk.exists
    /\ source0.size # new_size

DownloadFailed == read_called /\ data = Unbound

\* C10 (as claimed): when the body download fails, readTLEfile raises
\* nothing, the cached file keeps its content, and the stored etag and size
\* are unchanged.
C10_Claim_DownloadFailureNotFatal ==
    DownloadFailed =>
        /\ ~ReadTLEfileRaised
        /\ disk = disk0
        /\ source = source0

\* The file readTLEfile is about to expand is named .zip and zipfile.ZipFile
\* rejects it (lines 215-217).
CorruptArchive == pc = "r_unzip" /\ disk.exists /\ source.zip /\ disk.badzip

\* C11 (as claimed): when the file of a source is a corrupt archive, the
\* failure of the expansion is caught: no exception leaves process_tle_data,
\* the source yields no data, the records of earlier sources stay in the
\* catalog, and the next source is processed.
C11_Claim_CorruptArchiveCaught ==
    [][ CorruptArchive
          => (/\ exc' = "none"
              /\ pc' \in {"ptd_check", "ptd_next"}
              /\ ~Truthy(temp_content')
              /\ UNCHANGED catalogvars) ]_vars

\* response.read() has returned the body in this call of readTLEfile.
DownloadSucceeded == read_called /\ data # Unbound

\* C21: the stored etag and size of the descriptor change only when the
\* body download succeeds; they are then the etag and size the probe
\* obtained, and once the file is written it holds the downloaded body.  On
\* every other path (cache current, probe failure, download failure) the
\* descriptor is as it was; no other field of it ever changes.
C21_StoredTagsFollowDownload ==
    /\ source # source0 => DownloadSucceeded
    /\ DownloadSucceeded =>
          /\ source = [source0 EXCEPT !.etag = new_etag, !.size = new_size]
          /\ ~fallback_mode
          /\ data = response
          /\ new_size = response.size
          /\ pc # "r_write" => disk = response
    /\ ~DownloadSucceeded => source = source0

\* C21 witness: readTLEfile has returned after a download that replaced a
\* cached file and gave the descriptor another etag and another size.
C21_Witness ==
    /\ pc = "ptd_check"
    /\ DownloadSucceeded
    /\ disk0.exists
    /\ disk # disk0
    /\ disk = response
    /\ source.etag # source0.etag
    /\ source.size # source0.size

\* bodies_dedup sends every identity key ingested so far to the index of
\* the catalog entry with that key, and distinct keys to distinct indices.
DedupMapsKeys ==
    /\ DOMAIN bodies_dedup = IngestedKeys
    /\ \A k \in DOMAIN bodies_dedup :
          /\ bodies_dedup[k] \in 0..(Len(savedsats) - 1)
          /\ KeyOf(savedsats[bodies_dedup[k] + 1]) = k
    /\ \A k1, k2 \in DOMAIN bodies_dedup :
          k1 # k2 => bodies_dedup[k1] # bodies_dedup[k2]
    /\ Len(savedsats) = Cardinality(DOMAIN bodies_dedup)

\* C24: during the build the catalog only grows or replaces in place: its
\* length never decreases, the entry at an index keeps its identity key, the
\* index recorded for a key never changes, and the dedup map sends each key
\* seen so far to an in-range index whose record has that key, distinct keys
\* to distinct indices, the catalog length being the number of keys.
C24_CatalogGrowsOrReplaces ==
    /\ [][ /\ Len(savedsats') >= Len(savedsats)
           /\ \A i \in 1..Len(savedsats) :
                 KeyOf(savedsats'[i]) = KeyOf(savedsats[i])
           /\ \A k \in DOMAIN bodies_dedup :
                 k \in DOMAIN bodies_dedup' /\ bodies_dedup'[k] = bodies_dedup[k]
         ]_vars
    /\ [] DedupMapsKeys

\* C24 witness: inside the loop of the second source, after two appends,
\* the entry at index 0 has just been replaced in place.
C24_Witness ==
    /\ pc = "ptd_while"
    /\ cur = 2
    /\ Len(ingested) = 3
    /\ Len(savedsats) = 2
    /\ ingested[3][2] = ingested[1][2]
    /\ savedsats[1] = ingested[3][1]
    /\ savedsats[1] # ingested[1][1]
    /\ bodies_dedup[ingested[2][2]] = 1

(***************************************************************************)
(* Properties of the tick loop and the callbacks (checked under SpecPlot)  *)
(***************************************************************************)
\* The tick loop is between line 450 (it starts to build a frame) and line
\* 517 (the frame is drawn and annotated, the lock not yet released).
TickInSpan == tpc \in {"begin", "sat", "release"}

\* A callback is in the section that writes picked flags and picked_sats.
HandlerInSection == hpc \in {"pick_locked", "click_locked"}

\* C1: no callback is inside its section that writes picked flags or the
\* tracked list while the tick loop is between starting to build a frame and
\* finishing to render it; each side holds update_lock while it is there.
C1_MutualExclusion ==
    /\ ~(TickInSpan /\ HandlerInSection)
    /\ TickInSpan => update_lock = "tick"
    /\ hpc = "pick_locked" => update_lock = "onpick"
    /\ hpc = "click_locked" => update_lock = "onclick"

\* C1 witness: onpick is inside its section with two indices to toggle
\* while the tick loop waits at line 449 for the lock.
C1_Witness ==
    /\ hpc = "pick_locked"
    /\ Len(ev.ind) = 2
    /\ update_lock = "onpick"
    /\ tpc = "acquire"

\* C2 (as claimed): the plot indices of a pick event are resolved by onpick
\* against the frame the event was produced from: each index names, in
\* plotted_sats, the record it named in that frame.
C2_Claim_IndicesResolvedInTheirFrame ==
    hpc = "pick_locked" =>
        \A j \in 1..Len(ev.ind) :
           /\ ev.ind[j] < Len(plotted_sats)
           /\ plotted_sats[ev.ind[j] + 1] = ev.frame[ev.ind[j] + 1]

\* C3 (as claimed): when onpick or onclick has returned, by any exit path,
\* update_lock is not left held by it.
C3_Claim_LockReleasedOnEveryExit ==
    /\ update_lock = "onpick" => hpc = "pick_locked"
    /\ update_lock = "onclick" => hpc = "click_locked"

\* The records of this tick, so far, whose compute() returned with an
\* altitude above the horizon, in catalog order.
AboveHorizon ==
    SelectSeq([k \in 1..Len(outcomes) |-> k - 1],
              LAMBDA r : outcomes[r + 1] = "above")

\* C12: the frame of a tick holds exactly the catalog records whose
\* propagation succeeded with altitude > 0 at that tick, in catalog order;
\* a record below the horizon or whose propagation raised is never in it,
\* and when the frame is drawn every catalog record has been evaluated.
C12_FrameIsVisibleRecords ==
    /\ plotted_sats = AboveHorizon
    /\ \A j \in 1..Len(plotted_sats) : outcomes[plotted_sats[j] + 1] = "above"
    /\ tpc = "release" => Len(outcomes) = Len(savedsats)

\* C12 witness: a frame was built in which the first record's propagation
\* raised and the second is above the horizon, after an earlier frame.
C12_Witness ==
    /\ tpc = "release"
    /\ outcomes[1] \in {"ValueError", "RuntimeError"}
    /\ outcomes[2] = "above"
    /\ plotted_sats = <<1>>
    /\ artist = plotted_sats
    /\ close_event

\* C13 (as claimed): every record whose propagation has raised a generic
\* computation failure has had its diagnostic, exactly once; no diagnostic
\* is printed for any other record; and the failure does not stop the tick.
C13_Claim_WarnedOncePerRecord ==
    /\ \A r \in failed :
          Cardinality({ j \in 1..Len(diags) : diags[j] = r }) = 1
    /\ \A j \in 1..Len(diags) : diags[j] \in failed
    /\ tpc = "release" => Len(outcomes) = Len(savedsats)

\* The tracked list holds exactly the records whose picked flag is true,
\* each once.
TrackedIsPicked ==
    /\ \A a, b \in 1..Len(picked_sats) : a # b => picked_sats[a] # picked_sats[b]
    /\ { picked_sats[j] : j \in 1..Len(picked_sats) }
          = { r \in 0..(Len(savedsats) - 1) : savedsats[r + 1].picked }

\* Record r is at a position of the current frame that event.ind names.
PickedNow(r) ==
    \E j \in 1..Len(ev.ind) :
       /\ ev.ind[j] < Len(plotted_sats)
       /\ plotted_sats[ev.ind[j] + 1] = r

\* The step in which onpick runs lines 413-423.
OnpickRuns == hpc = "pick_locked" /\ hpc' # "pick_locked"

\* C14: an accepted onpick flips the picked flag of the record at each
\* picked position of the current frame and of no other record, appends a
\* record that becomes picked to the tracked list and removes one that
\* becomes unpicked; the tracked list always holds exactly the records whose
\* picked flag is true, each once.
C14_PickTogglesTracked ==
    /\ [][ OnpickRuns =>
             \A r \in 0..(Len(savedsats) - 1) :
                /\ savedsats'[r + 1].picked
                      = (IF PickedNow(r) THEN ~savedsats[r + 1].picked
                                         ELSE savedsats[r + 1].picked)
                /\ savedsats'[r + 1] = [savedsats[r + 1] EXCEPT
                                           !.picked = savedsats'[r + 1].picked]
                /\ InList(picked_sats', r) = savedsats'[r + 1].picked
                /\ (PickedNow(r) /\ ~savedsats[r + 1].picked)
                      => picked_sats'[Len(picked_sats')] \in
                            { q \in 0..(Len(savedsats) - 1) : PickedNow(q) }
         ]_vars
    /\ [] TrackedIsPicked

\* C14 witness: onpick has returned after a pick of two points that
\* unpicked record 0, picked earlier, and picked record 1.
C14_Witness ==
    /\ hpc = "click_entry"
    /\ ev.ind = <<0, 1>>
    /\ ~ev.limited
    /\ update_lock = "free"
    /\ picked_sats = <<1>>
    /\ savedsats[2].picked
    /\ ~savedsats[1].picked
    /\ plotted_sats = <<0, 1>>

\* The steps in which lines 409-411 of onpick and 430-432 of onclick run.
OnpickEnters == hpc = "idle" /\ hpc' # "idle" /\ ev'.ind # <<>>

OnclickEnters == hpc = "click_entry" /\ hpc' # "click_entry"

\* The event comes less than click_wait_s after the last accepted one.
WithinInterval == now - curr_time < click_wait_s

\* What an event that is rate-limited leaves alone.
pickstate == << savedsats, picked_sats, curr_time, update_lock >>

OnclickReturns == hpc \in {"click_entry", "click_locked"} /\ hpc' = "idle"

\* The step in which onclick runs lines 434-441.
OnclickRuns == hpc = "click_locked" /\ hpc' # "click_locked"

\* The click is not the mouse event of the last pick and uses button 3.
ClearingClick == last_picked # "event" /\ ev.button = 3

NothingPicked ==
    /\ picked_sats = <<>>
    /\ \A i \in 1..Len(savedsats) : ~savedsats[i].picked

\* C16 (as claimed): every onclick with the secondary button whose mouse
\* event is not that of a pick leaves, when it returns, every record
\* unpicked and the tracked list empty; every other onclick changes no
\* picked flag and no tracked-list entry.
C16_Claim_EverySecondaryClickClears ==
    [][ OnclickReturns =>
          IF ClearingClick THEN NothingPicked'
          ELSE UNCHANGED << savedsats, picked_sats >> ]_vars

\* C16 (amended): an onclick that passes the rate limiter, with the secondary
\* button and a mouse event that is not that of a pick, leaves every record
\* unpicked and the tracked list empty; an onclick that is rate-limited, or
\* is part of the gesture of a pick, or uses another button, changes no
\* picked flag and no tracked-list entry.
C16_AcceptedSecondaryClickClears ==
    /\ [][ OnclickRuns =>
             IF ClearingClick THEN NothingPicked'
             ELSE UNCHANGED << savedsats, picked_sats >> ]_vars
    /\ [][ (OnclickEnters /\ WithinInterval) =>
             (hpc' = "idle" /\ UNCHANGED << savedsats, picked_sats >>) ]_vars
    /\ [][ (OnclickEnters /\ ~WithinInterval) =>
             (hpc' = "click_wait" /\ UNCHANGED << savedsats, picked_sats >>) ]_vars

\* C16 witness: onclick has returned after clearing the picks of both
\* records, which the frame on the axes still shows as picked.
C16_Witness ==
    /\ hpc = "idle"
    /\ ev.cleared
    /\ NothingPicked
    /\ colors = <<"#000000", "#000000">>
    /\ update_lock = "free"

\* C17 (as claimed): once the close flag is set the tick loop eventually
\* exits; it leaves only from the top of an iteration or from the pause,
\* never from inside a frame build, and without holding update_lock.
C17_Claim_CloseExitsLoop ==
    /\ [][ tpc' = "exited" => tpc \in {"top", "pause", "exited"} ]_vars
    /\ [] (tpc = "exited" => (close_event /\ update_lock # "tick"))
    /\ close_event ~> tpc = "exited"

\* update_lock is held, and whoever took it is no longer in the section
\* that ends with its release.
LockOwnerGone ==
    \/ update_lock = "tick" /\ ~TickInSpan
    \/ update_lock = "onpick" /\ hpc # "pick_locked"
    \/ update_lock = "onclick" /\ hpc # "click_locked"

HandlerWaits == hpc \in {"pick_wait", "click_wait"}

\* C19 (as claimed): a handler that has passed the rate limiter is not
\* dropped while the lock is held: it stays at its acquire until the lock is
\* free and then runs its section; and there is no state in which the tick
\* loop and a handler both wait for a lock that nobody will release.
C19_Claim_BlocksWithoutDeadlock ==
    /\ [][ hpc = "pick_wait" => hpc' \in {"pick_wait", "pick_locked"} ]_vars
    /\ [][ hpc = "click_wait" => hpc' \in {"click_wait", "click_locked"} ]_vars
    /\ [][ (HandlerWaits /\ ~HandlerWaits') => update_lock = "free" ]_vars
    /\ [] ~(tpc = "acquire" /\ HandlerWaits /\ LockOwnerGone)

\* The frame under construction agrees with the records evaluated so far
\* (the first sat_i of the catalog).
FrameConsistent ==
    /\ Len(theta_plot) = Len(plotted_sats)
    /\ Len(radius_plot) = Len(plotted_sats)
    /\ Len(colors) = Len(plotted_sats)
    /\ \A i \in 1..Len(plotted_sats) :
          LET r == plotted_sats[i] IN
             /\ r < sat_i
             /\ plot_idx[r + 1] = i - 1
             /\ colors[i] = (IF savedsats[r + 1].picked THEN "#000000"
                             ELSE savedsats[r + 1].color)
    /\ \A r \in 0..(sat_i - 1) :
          ~InList(plotted_sats, r) => plot_idx[r + 1] = -1

\* C20: while a frame is built and when it is complete, the angle, radius,
\* colour and record sequences have one length; the record at position i
\* has plot_idx = i; an evaluated record that is not in the frame has
\* plot_idx = None; the colour at position i is '#000000' when the record is
\* picked and its source colour otherwise; and a complete frame has
\* evaluated every record of the catalog.
C20_FrameConsistentAtBuild ==
    /\ tpc \in {"sat", "release"} => FrameConsistent
    /\ tpc = "release" => sat_i = Len(savedsats)

\* C20 witness: the build has ended with a frame holding only record 1,
\* picked, at position 0, while the axes still show the frame before it,
\* which had record 0 at position 0 and record 1 at position 1.
C20_Witness ==
    /\ tpc = "sat"
    /\ sat_i = Len(savedsats)
    /\ artist = <<0, 1>>
    /\ plotted_sats = <<1>>
    /\ plot_idx = <<-1, 0>>
    /\ colors = <<"#000000">>
    /\ savedsats[2].picked
    /\ picked_sats = <<1>>

\* The picked flags, by record.
PickedFlags == [ i \in 1..Len(savedsats) |-> savedsats[i].picked ]

\* A step of the tick loop (lines 444-526).
TickSteps == tickvars' # tickvars

\* C22: no step of the tick loop changes a picked flag or the tracked list
\* (membership or order); they change only in the step in which onpick or
\* onclick runs its section, and the records of the catalog change in
\* nothing but their picked flag.
C22_TickLeavesPickedState ==
    /\ [][ TickSteps => (PickedFlags' = PickedFlags
                         /\ picked_sats' = picked_sats) ]_vars
    /\ [][ (PickedFlags' # PickedFlags \/ picked_sats' # picked_sats)
              => (OnpickRuns \/ OnclickRuns) ]_vars
    /\ [][ \A i \in 1..Len(savedsats) :
              savedsats'[i] = [savedsats[i] EXCEPT !.picked = savedsats'[i].picked]
         ]_vars

\* C22 witness: a frame was built and drawn with both records picked, the
\* tracked list in the order of the picks and not in catalog order.
C22_Witness ==
    /\ tpc = "release"
    /\ picked_sats = <<1, 0>>
    /\ noted_sats = <<0, 1>>
    /\ plotted_sats = <<0, 1>>
    /\ PickedFlags = <<TRUE, TRUE>>

\* Record r is picked and tracked and is not in the current frame.
TrackedNotPlotted(r) ==
    /\ savedsats[r + 1].picked
    /\ InList(picked_sats, r)
    /\ ~InList(plotted_sats, r)

\* C23: a picked record that is not in the current frame stays picked and
\* in the tracked list through every step, ticks included, except the step
\* of an onclick that clears the picks; and onpick changes the picked flag
\* of no record that is not in the current frame.
C23_TrackedOutlivesFrame ==
    /\ [][ \A r \in 0..(Len(savedsats) - 1) :
              TrackedNotPlotted(r) =>
                 \/ savedsats'[r + 1].picked /\ InList(picked_sats', r)
                 \/ OnclickRuns /\ ClearingClick ]_vars
    /\ [][ OnpickRuns =>
              \A r \in 0..(Len(savedsats) - 1) :
                 ~InList(plotted_sats, r)
                    => /\ savedsats'[r + 1].picked = savedsats[r + 1].picked
                       /\ InList(picked_sats', r) = InList(picked_sats, r) ]_vars

\* C23 witness: record 0, picked from an earlier frame, is not in the frame
\* just built (it is below the horizon or its propagation raised) and an
\* onpick on that frame has run; record 0 is still tracked.
C23_Witness ==
    /\ hpc = "click_entry"
    /\ ~ev.limited
    /\ ev.ind = <<0>>
    /\ plotted_sats = <<1>>
    /\ outcomes[1] # "above"
    /\ Len(outcomes) = 2
    /\ picked_sats = <<0, 1>>
    /\ PickedFlags = <<TRUE, TRUE>>

\* The step in which lines 450-460 run.
TickBegins == tpc = "begin" /\ tpc' = "sat"

\* C25: the instant of a tick is set when the tick begins, before any record
\* is propagated: the instant before plus secs_per_step when that is not 0
\* (so start + k * step at the k-th tick, whatever the clock and the events
\* do), and the wall-clock time read at that moment when it is 0.  Nothing
\* else changes it, and every record of the tick is propagated at it.
C25_TickInstant ==
    /\ [][ TickBegins =>
             /\ curr_date' = (IF SecsPerStep # 0 THEN curr_date + SecsPerStep
                              ELSE now)
             /\ home_date' = curr_date'
             /\ dates' = <<>> ]_vars
    /\ [][ ~TickBegins => UNCHANGED << curr_date, home_date >> ]_vars
    /\ [] (/\ Len(dates) = Len(outcomes)
           /\ \A j \in 1..Len(dates) : dates[j] = curr_date)
    /\ [] (SecsPerStep # 0 =>
              \E k \in 0..MaxDate : curr_date = 0 + k * SecsPerStep)

\* C25 witness: with secs_per_step = 7 the second tick has propagated both
\* records at instant 14, while the clock reads 2 and a pick has been
\* applied.
C25_Witness ==
    /\ SecsPerStep = 7
    /\ tpc = "release"
    /\ curr_date = 14
    /\ dates = <<14, 14>>
    /\ now = 2
    /\ picked_sats # <<>>

(***************************************************************************)
(* Properties of _load_config (checked under SpecConfig)                   *)
(***************************************************************************)
\* The value found under a key is not a literal of the item's type.
Malformed(item_type, found) ==
    CASE item_type = "int" -> found.t # "str" \/ found.v[1] \notin IntLiterals
      [] item_type = "float" ->
            found.t # "str" \/ found.v[1] \notin FloatLiterals
      [] item_type = "str" -> found.t # "str"
      [] item_type = "list" -> found.t # "list"

\* C18 (as claimed): loading the configuration raises nothing, and every
\* item whose key is absent (the whole 'main' section may be) or whose value
\* is malformed for its type gets the built-in default, which is also
\* stored in the configuration.
C18_Claim_ConfigNeverFatal ==
    /\ cfg_exc = "none"
    /\ cpc # "crashed"
    /\ \A k \in 1..item_i :
          (cfg_read[k] = Absent \/ Malformed(Items[k].type, cfg_read[k]))
             => /\ settings[Items[k].name] = Items[k].default
                /\ config[Items[k].name] = Items[k].default

====
